---- MODULE Spec2Model ----
(***************************************************************************)
(* Supply-curve builder of the GridStatus bridge endpoint                  *)
(* (src/pages/api/gridstatus-python-bridge.ts, GET), the clearing-price    *)
(* statistics of the dashboard that consumes its response                  *)
(* (SupplyCurveDashboard, stats), and the supply-curve chart endpoint      *)
(* (src/pages/api/generate-supply-curve-js.ts, POST).                      *)
(*                                                                         *)
(* Units.  Capacities are integers counting tenths of a MW and prices are  *)
(* integers counting thousandths of a $/MWh, so that the roundings of the  *)
(* dashboard (to whole MW, to cents) and its 70 % demand estimate are      *)
(* computed and not the identity.  Capacities of the inputs are whole MW   *)
(* (multiples of 10), which makes the 70 % estimate exact.                 *)
(*                                                                         *)
(* A missing string (null, undefined or '') is the empty string; a missing *)
(* output_schedule (null or undefined) is the empty tuple and a present    *)
(* one, n, is <<n>>.                                                       *)
(***************************************************************************)
EXTENDS Integers, Sequences, FiniteSets, TLC

\* ------------------------------------------------------------------ bounds

MaxRows == 2        \* generator records in a market snapshot
MaxPoints == 2      \* points of the offer curve of a single record
MaxRequests == 3    \* chart requests the JS dashboard makes

\* ------------------------------------------------------------------ inputs

Statuses == {"ON", "OUT", "OFF", "OFFNS"}
ResourceTypes == {"WIND", "PVGR", "NUC", ""}
\* Resource types for the colors: table keys, types in lower case, types
\* including the substring of a rule, and types no rule matches.
ColorTypes ==
    {"WIND", "NUC", "PWRSTR", "wind", "WIND_OFFSHORE", "BESS", "BATTERY",
     "STORAGE", "Nuclear", "XYZ"}
Schedules == {<<>>, <<-10>>, <<0>>, <<20>>, <<30>>}
MwValues == {0, 10, 30}
Prices == {-5000, 20004}

\* Offer-curve points: [cumulativeMW, price] pairs, and two malformed shapes.
WellFormedPoints == {<<m, p>> : m \in MwValues, p \in Prices}
MalformedPoints == {<<10>>, <<20, 20004, 0>>}
Points == WellFormedPoints \cup MalformedPoints

Row(name, type, status, curve, schedule) ==
    [resource_name |-> name, resource_type |-> type,
     telemetered_resource_status |-> status,
     sced_tpo_offer_curve |-> curve, output_schedule |-> schedule]

\* Records of a market snapshot: a few curves, with price ties and a
\* negative price; renewables and others with each kind of schedule,
\* records without a type or a name, and an unavailable record.
MarketCurves ==
    { << <<10, 20004>> >>,
      << <<30, 20004>> >>,
      << <<10, -5000>>, <<30, 20004>> >> }

MarketRows ==
    {Row("G1", t, "ON", c, o) : t \in {"WIND", "NUC"}, c \in MarketCurves,
                                o \in {<<>>, <<0>>, <<20>>}}
    \cup {Row(n, "", "ON", c, <<20>>) : n \in {"G1", ""}, c \in MarketCurves}
    \cup {Row("", "NUC", "ON", << <<10, 20004>> >>, <<20>>),
          Row("G1", "NUC", "OFFNS", << <<30, 20004>> >>, <<20>>)}

\* A wind generator offering 50 MW at -5, 100 MW more at 0 and 150 MW more
\* at 10, scheduled at 120 MW.
ScheduledWind ==
    Row("G1", "WIND", "ON",
        << <<500, -5000>>, <<1500, 0>>, <<3000, 10000>> >>, <<1200>>)

\* ------------------------------------------------------------------ helpers

Min(a, b) == IF a < b THEN a ELSE b

\* JavaScript's  x || fallback  on strings.
OrElseNothing(x, fallback) == x

OrElse(x, fallback) == IF x = "" THEN fallback ELSE x

RECURSIVE SumMw(_)
SumMw(s) == IF s = <<>> THEN 0 ELSE s[1].mw + SumMw(Tail(s))

\* ------------------------------------------------------------------ state

VARIABLES
    rawData,                    \* pythonResult.data: the generator records
    idx,                        \* position of rawData.forEach (next row)
    expandedData,               \* segments pushed so far
    processedUnitsCount,
    skippedForStatus,
    skippedForZeroSchedule,
    skippedForMissingSchedule,
    response,                   \* the bridge's response; status 0: none yet
    stats,                      \* the dashboard's memoised statistics
    endpoint,                   \* the endpoint the request is sent to
    chart,                      \* the chart endpoint's response; status 0: none yet
    body,                       \* the body of the chart request
    lines,                      \* the records of the mock CSV file
    csvMockData,                \* the dashboard's csvMockData and csvDataLoaded
    selectedDate,               \* state of the JS dashboard
    datesLoading,
    loading,
    error,
    chartData,
    shownActualDemand,          \* its actualDemand
    requests,                   \* its generateChart calls, in the order made
    promise,                    \* the promise runPythonScript returns
    events,                     \* the events of the Python process so far
    killed                      \* pythonProcess.killed

\* The state of the JS dashboard.
jsDashboardVars == <<selectedDate, datesLoading, loading, error, chartData,
                     shownActualDemand, requests>>

\* The state of a call of runPythonScript.
pythonVars == <<promise, events, killed>>

\* What the bridge, the statistics and the chart endpoint leave alone.
otherVars == <<lines, csvMockData, jsDashboardVars, pythonVars>>

vars == <<rawData, idx, expandedData, processedUnitsCount, skippedForStatus,
          skippedForZeroSchedule, skippedForMissingSchedule, response, stats,
          endpoint, chart, body, otherVars>>

\* ------------------------------------------------------------------ builder

\* Mutant of excludedStatuses: OFFNS is forgotten.
excludedStatusesWithoutOFFNS == {"OUT", "OFF"}

excludedStatuses == {"OUT", "OFF", "OFFNS"}

\* The test with PVGR forgotten.
isWindToTruncate(row) == row.resource_type = "WIND"

isRenewableToTruncate(row) ==
    row.resource_type = "WIND" \/ row.resource_type = "PVGR"

\* Mutant of MissingSchedule: only renewables are checked for a schedule.
MissingScheduleOfRenewable(row) ==
    row.output_schedule = <<>> /\ isRenewableToTruncate(row)

MissingSchedule(row) == row.output_schedule = <<>>

outputSchedule(row) == row.output_schedule[1]

\* Mutant of ZeroSchedule: the test for a renewable type is lost.
ZeroScheduleOfAnyType(row) == outputSchedule(row) <= 0

\* isRenewableToTruncate && outputSchedule <= 0
ZeroSchedule(row) == isRenewableToTruncate(row) /\ outputSchedule(row) <= 0

\* Mutant of SegmentMw: the previous point is not subtracted.
SegmentMwFromZero(currentMw, prevMw) == currentMw

\* const segmentMw = currentMw - prevMw
SegmentMw(currentMw, prevMw) == currentMw - prevMw

\* Mutant of ActualSegmentMw: the last segment is not clipped.
ActualSegmentMwUnclipped(segmentMw, remainingToSchedule) == segmentMw

\* const actualSegmentMw = Math.min(segmentMw, remainingToSchedule)
ActualSegmentMw(segmentMw, remainingToSchedule) == Min(segmentMw, remainingToSchedule)

\* The test with a segment of no width let through.
PositiveWidthOrNone(segmentMw) == segmentMw >= 0

\* if (segmentMw > 0)
PositiveWidth(segmentMw) == segmentMw > 0

Segment(row, mw, price) ==
    [mw |-> mw, price |-> price,
     resource_name |-> OrElse(row.resource_name, "UNKNOWN_GENERATOR"),
     resource_type |-> OrElse(row.resource_type, "UNKNOWN_TYPE")]

\* The  for (const point of curve)  loop from point k on, with the loop's
\* locals prevMw and cumulativeScheduled: the segments it pushes.
RECURSIVE ExpandCurve(_, _, _, _)
ExpandCurve(row, k, prevMw, cumulativeScheduled) ==
    LET curve == row.sced_tpo_offer_curve
    IN  IF k > Len(curve) THEN <<>>
        ELSE
          LET point == curve[k]
          IN  IF Len(point) # 2
              THEN ExpandCurve(row, k + 1, prevMw, cumulativeScheduled)
              ELSE
                LET currentMw == point[1]
                    price == point[2]
                    segmentMw == SegmentMw(currentMw, prevMw)
                IN  IF PositiveWidth(segmentMw) /\ isRenewableToTruncate(row)
                       /\ cumulativeScheduled < outputSchedule(row)
                    THEN
                      LET remainingToSchedule == outputSchedule(row) - cumulativeScheduled
                          actualSegmentMw == ActualSegmentMw(segmentMw, remainingToSchedule)
                      IN  IF cumulativeScheduled + actualSegmentMw >= outputSchedule(row)
                          THEN << Segment(row, actualSegmentMw, price) >>     \* break
                          ELSE << Segment(row, actualSegmentMw, price) >>
                               \o ExpandCurve(row, k + 1, currentMw,
                                              cumulativeScheduled + actualSegmentMw)
                    ELSE IF PositiveWidth(segmentMw) /\ ~isRenewableToTruncate(row)
                    THEN << Segment(row, segmentMw, price) >>
                         \o ExpandCurve(row, k + 1, currentMw, cumulativeScheduled)
                    ELSE ExpandCurve(row, k + 1, currentMw, cumulativeScheduled)

\* The whole  rawData.forEach : the segments pushed for a list of records.
RECURSIVE ExpandAll(_)
ExpandAll(rows) ==
    IF rows = <<>> THEN <<>>
    ELSE LET row == rows[1]
         IN  (IF row.telemetered_resource_status \in excludedStatuses THEN <<>>
              ELSE IF MissingSchedule(row) THEN <<>>
              ELSE IF ZeroSchedule(row) THEN <<>>
              ELSE ExpandCurve(row, 1, 0, 0))
             \o ExpandAll(Tail(rows))

Bridge == endpoint = "gridstatus-python-bridge" /\ response.status = 0

Rows == Bridge /\ idx <= Len(rawData)

\* forEach callback, first return: the unit is unavailable.
SkipStatus ==
    /\ Rows
    /\ rawData[idx].telemetered_resource_status \in excludedStatuses
    /\ skippedForStatus' = skippedForStatus + 1
    /\ idx' = idx + 1
    /\ UNCHANGED <<rawData, expandedData, processedUnitsCount, skippedForZeroSchedule,
                   skippedForMissingSchedule, response, stats, endpoint, chart, body, otherVars>>

\* forEach callback, second return: output_schedule is null or undefined.
SkipMissingSchedule ==
    /\ Rows
    /\ rawData[idx].telemetered_resource_status \notin excludedStatuses
    /\ MissingSchedule(rawData[idx])
    /\ skippedForMissingSchedule' = skippedForMissingSchedule + 1
    /\ idx' = idx + 1
    /\ UNCHANGED <<rawData, expandedData, processedUnitsCount, skippedForStatus,
                   skippedForZeroSchedule, response, stats, endpoint, chart, body, otherVars>>

\* forEach callback, third return: a renewable scheduled at or below zero.
SkipZeroSchedule ==
    /\ Rows
    /\ rawData[idx].telemetered_resource_status \notin excludedStatuses
    /\ ~MissingSchedule(rawData[idx])
    /\ ZeroSchedule(rawData[idx])
    /\ skippedForZeroSchedule' = skippedForZeroSchedule + 1
    /\ idx' = idx + 1
    /\ UNCHANGED <<rawData, expandedData, processedUnitsCount, skippedForStatus,
                   skippedForMissingSchedule, response, stats, endpoint, chart, body, otherVars>>

\* forEach callback, no return taken: the unit's curve is expanded.
ExpandRow ==
    /\ Rows
    /\ rawData[idx].telemetered_resource_status \notin excludedStatuses
    /\ ~MissingSchedule(rawData[idx])
    /\ ~ZeroSchedule(rawData[idx])
    /\ processedUnitsCount' = processedUnitsCount + 1
    /\ expandedData' = expandedData \o ExpandCurve(rawData[idx], 1, 0, 0)
    /\ idx' = idx + 1
    /\ UNCHANGED <<rawData, skippedForStatus, skippedForZeroSchedule,
                   skippedForMissingSchedule, response, stats, endpoint, chart, body, otherVars>>

\* ------------------------------------------------------------------ assembly

\* Mutant of Compare: the  || a.mw - b.mw  tie-break is lost.
CompareNoTieBreak(a, b) == a.price - b.price

\* The comparator of supplyData.sort:  a.price - b.price || a.mw - b.mw.
Compare(a, b) ==
    IF a.price - b.price # 0 THEN a.price - b.price ELSE a.mw - b.mw

\* Mutant of ComparePrice: the dashboard sorts by descending price.
ComparePriceDescending(a, b) == b.price - a.price

\* The comparator of the dashboard's re-sort:  a.price - b.price.
ComparePrice(a, b) == a.price - b.price

\* The comparator handed to Array.prototype.sort: "supply" is the
\* builder's, "price" the dashboard's.
CompareWith(comparator, a, b) ==
    IF comparator = "supply" THEN Compare(a, b) ELSE ComparePrice(a, b)

\* Array.prototype.sort is stable: x goes after every element that does
\* not compare greater than it.
RECURSIVE Insert(_, _, _)
Insert(comparator, s, x) ==
    IF s = <<>> THEN <<x>>
    ELSE IF CompareWith(comparator, s[Len(s)], x) <= 0 THEN Append(s, x)
    ELSE Append(Insert(comparator, SubSeq(s, 1, Len(s) - 1), x), s[Len(s)])

\* The array left as it is.
SortLeavingOrder(comparator, s) == s

RECURSIVE Sort(_, _)
Sort(comparator, s) ==
    IF s = <<>> THEN <<>>
    ELSE Insert(comparator, Sort(comparator, SubSeq(s, 1, Len(s) - 1)), s[Len(s)])

\* Mutant of SupplyPoint: the end of a point is taken for its start.
SupplyPointEndIsStart(point, cumulativeCapacity) ==
    [mw |-> point.mw, price |-> point.price,
     resource_name |-> point.resource_name, resource_type |-> point.resource_type,
     cumulativeCapacity |-> cumulativeCapacity,
     cumulativeCapacityEnd |-> cumulativeCapacity]

SupplyPoint(point, cumulativeCapacity) ==
    [mw |-> point.mw, price |-> point.price,
     resource_name |-> point.resource_name, resource_type |-> point.resource_type,
     cumulativeCapacity |-> cumulativeCapacity,
     cumulativeCapacityEnd |-> cumulativeCapacity + point.mw]

\* limitedSupplyData.map with the running variable cumulativeCapacity:
\* the mapped points from position k on, and the variable's final value.
RECURSIVE CumulativeMap(_, _, _)
CumulativeMap(s, k, cumulativeCapacity) ==
    IF k > Len(s) THEN [points |-> <<>>, cumulativeCapacity |-> cumulativeCapacity]
    ELSE LET rest == CumulativeMap(s, k + 1, cumulativeCapacity + s[k].mw)
         IN  [points |-> << SupplyPoint(s[k], cumulativeCapacity) >> \o rest.points,
              cumulativeCapacity |-> rest.cumulativeCapacity]

\* String.prototype.includes.
Includes(s, needle) ==
    \E i \in 1..(Len(s) - Len(needle) + 1) : SubSeq(s, i, i + Len(needle) - 1) = needle

\* String.prototype.toUpperCase, for letters without accents.
LowerCase == "abcdefghijklmnopqrstuvwxyz"
UpperCase == "ABCDEFGHIJKLMNOPQRSTUVWXYZ"
RECURSIVE toUpperCase(_)
toUpperCase(s) ==
    IF Len(s) = 0 THEN ""
    ELSE LET c == SubSeq(s, 1, 1)
             at == {i \in 1..26 : SubSeq(LowerCase, i, i) = c}
         IN  (IF at = {} THEN c
              ELSE LET i == CHOOSE i \in at : TRUE IN SubSeq(UpperCase, i, i))
             \o toUpperCase(SubSeq(s, 2, Len(s)))

\* The color of the first rule of a cascade, a list of <<substrings,
\* color>>, that has a substring the type includes; other if none has.
RECURSIVE FirstMatch(_, _, _, _)
FirstMatch(rules, k, type, other) ==
    IF k > Len(rules) THEN other
    ELSE IF \E needle \in rules[k][1] : Includes(type, needle) THEN rules[k][2]
    ELSE FirstMatch(rules, k + 1, type, other)

\* The entries of an object literal given as a list of <<key, value>>.
Keys(object) == {object[i][1] : i \in 1..Len(object)}
Value(object, key) ==
    object[CHOOSE i \in 1..Len(object) : object[i][1] = key][2]

\* colorMap of the bridge: the exact resource types and their colors.
colorMap ==
    << <<"WIND", "#22C55E">>, <<"SOLAR", "#FF8C00">>, <<"SCLE90", "#FF8C00">>,
       <<"NUCLEAR", "#7C3AED">>, <<"NUC", "#7C3AED">>, <<"GAS_CC", "#2563EB">>,
       <<"CCLE90", "#2563EB">>, <<"CCGT90", "#2563EB">>, <<"COAL", "#4B5563">>,
       <<"GAS_ST", "#DC2626">>, <<"PWRSTR", "#DC2626">>, <<"OIL_ST", "#EA580C">>,
       <<"GAS_CT", "#E11D48">>, <<"SCGT90", "#E11D48">>, <<"OIL_CT", "#65A30D">>,
       <<"HYDRO", "#0891B2">>, <<"GSREH", "#059669">>, <<"GSNONR", "#0D9488">>,
       <<"DSL", "#9333EA">>, <<"PVGR", "#F59E0B">>, <<"CLLIG", "#16A34A">>,
       <<"OTHER", "#6B7280">> >>

\* The partial matches of the bridge, in the order they are tried.
PartialMatches ==
    << <<{"WIND"}, "#22C55E">>,
       <<{"SOLAR", "PV"}, "#FF8C00">>,
       <<{"NUC"}, "#7C3AED">>,
       <<{"CC", "CCGT"}, "#2563EB">>,
       <<{"COAL"}, "#4B5563">>,
       <<{"ST", "STEAM"}, "#DC2626">>,
       <<{"CT", "SCGT", "GT"}, "#E11D48">>,
       <<{"HYDRO"}, "#0891B2">>,
       <<{"GS", "BESS", "STORAGE"}, "#059669">> >>

\* getColorForResourceType of the bridge: exact match on the type as
\* given, then partial matches on the type in upper case, then gray.
getColorForResourceType(resourceType) ==
    IF resourceType \in Keys(colorMap) THEN Value(colorMap, resourceType)
    ELSE FirstMatch(PartialMatches, 1, toUpperCase(resourceType), "#6B7280")

\* getColorForResourceType over the strings a resource type can be, the
\* empty string among them, evaluated once.
resourceTypeColor ==
    [type \in ResourceTypes \cup ColorTypes \cup {"UNKNOWN_TYPE", "OTHER"} |->
        getColorForResourceType(type)]

\* Mutant of ResourceTypeFold: the capacity of a type is overwritten by
\* each of its points instead of being added up.
RECURSIVE ResourceTypeFoldOverwrite(_, _, _)
ResourceTypeFoldOverwrite(s, k, resourceTypeMap) ==
    IF k > Len(s) THEN resourceTypeMap
    ELSE
      LET point == s[k]
          type == OrElse(point.resource_type, "OTHER")
          entry == IF type \in DOMAIN resourceTypeMap
                   THEN resourceTypeMap[type]
                   ELSE [capacity |-> 0, marginalCost |-> point.price,
                         color |-> resourceTypeColor[type]]
          added == [entry EXCEPT !.capacity = point.mw]
      IN  ResourceTypeFoldOverwrite(s, k + 1,
              [t \in DOMAIN resourceTypeMap \cup {type} |->
                  IF t = type THEN added ELSE resourceTypeMap[t]])

\* The fold with marginalCost set from every point of the type.
RECURSIVE ResourceTypeFoldLastPrice(_, _, _)
ResourceTypeFoldLastPrice(s, k, resourceTypeMap) ==
    IF k > Len(s) THEN resourceTypeMap
    ELSE
      LET point == s[k]
          type == OrElse(point.resource_type, "OTHER")
          entry == IF type \in DOMAIN resourceTypeMap
                   THEN resourceTypeMap[type]
                   ELSE [capacity |-> 0, marginalCost |-> point.price,
                         color |-> resourceTypeColor[type]]
          added == [capacity |-> entry.capacity + point.mw,
                    marginalCost |-> point.price, color |-> entry.color]
      IN  ResourceTypeFoldLastPrice(s, k + 1,
              [t \in DOMAIN resourceTypeMap \cup {type} |->
                  IF t = type THEN added ELSE resourceTypeMap[t]])

\* processedData.forEach filling resourceTypeMap, from position k on.
RECURSIVE ResourceTypeFold(_, _, _)
ResourceTypeFold(s, k, resourceTypeMap) ==
    IF k > Len(s) THEN resourceTypeMap
    ELSE
      LET point == s[k]
          type == OrElse(point.resource_type, "OTHER")
          entry == IF type \in DOMAIN resourceTypeMap
                   THEN resourceTypeMap[type]
                   ELSE [capacity |-> 0, marginalCost |-> point.price,
                         color |-> resourceTypeColor[type]]
          added == [entry EXCEPT !.capacity = entry.capacity + point.mw]
      IN  ResourceTypeFold(s, k + 1,
              [t \in DOMAIN resourceTypeMap \cup {type} |->
                  IF t = type THEN added ELSE resourceTypeMap[t]])

EmptyMap == [t \in {} |-> 0]

\* The filter also dropping the segments priced at or below 0.
supplyDataPositivePrices(expanded) ==
    Sort("supply", SelectSeq(expanded, LAMBDA point : point.mw > 0 /\ point.price > 0))

supplyData(expanded) == Sort("supply", SelectSeq(expanded, LAMBDA point : point.mw > 0))

\* data of the success response built from the pushed segments.
ResponseData(expanded) ==
    LET mapped == CumulativeMap(supplyData(expanded), 1, 0)
        processedData == mapped.points
    IN  [rawSupplyCurve |-> processedData,
         resourceTypeSummary |-> ResourceTypeFold(processedData, 1, EmptyMap),
         totalCapacity |-> mapped.cumulativeCapacity,
         dataPoints |-> Len(processedData)]

NoResponse == [status |-> 0]

\* The response thrown for no record.
NoDataResponse ==
    [status |-> 500, success |-> FALSE, error |-> "No data returned from Python script"]

\* rawData is empty: the handler throws and answers 500.
ThrowNoData ==
    /\ Bridge
    /\ Len(rawData) = 0
    /\ response' = NoDataResponse
    /\ UNCHANGED <<rawData, idx, expandedData, processedUnitsCount, skippedForStatus,
                   skippedForZeroSchedule, skippedForMissingSchedule, stats, endpoint, chart, body, otherVars>>

\* The response with the segments counted for the units.
SuccessResponseOfSegments(expanded, processedUnits, rows) ==
    [status |-> 200, success |-> TRUE,
     data |-> ResponseData(expanded),
     metadata |-> [originalDataPoints |-> Len(expanded),
                   processedDataPoints |-> Len(supplyData(expanded)),
                   totalExpandedPoints |-> Len(expanded),
                   excludedUnitsCount |-> Len(rows) - Len(expanded)]]

\* The success response for the pushed segments and the units processed.
SuccessResponse(expanded, processedUnits, rows) ==
    [status |-> 200, success |-> TRUE,
     data |-> ResponseData(expanded),
     metadata |-> [originalDataPoints |-> processedUnits,
                   processedDataPoints |-> Len(supplyData(expanded)),
                   totalExpandedPoints |-> Len(expanded),
                   excludedUnitsCount |-> Len(rows) - processedUnits]]

\* After the last row: filter, sort, cumulative capacity, summary, response.
SendResponse ==
    /\ Bridge
    /\ Len(rawData) > 0 /\ idx > Len(rawData)
    /\ response' = SuccessResponse(expandedData, processedUnitsCount, rawData)
    /\ UNCHANGED <<rawData, idx, expandedData, processedUnitsCount, skippedForStatus,
                   skippedForZeroSchedule, skippedForMissingSchedule, stats, endpoint, chart, body, otherVars>>

\* expandedData as an array that outlives the invocation.
ExpandedDataKept(left) == left

\* const expandedData = []: the array of an invocation is new, whatever an
\* earlier invocation left in its own.
ExpandedDataDeclared(left) == <<>>

\* The positions of the records that take the callback's exit of the kind.
RowsTaking(kind) ==
    {i \in 1..Len(rawData) :
        LET row == rawData[i]
            excluded == row.telemetered_resource_status \in excludedStatuses
        IN  CASE kind = "status" -> excluded
              [] kind = "missing" -> ~excluded /\ MissingSchedule(row)
              [] kind = "zero" -> ~excluded /\ ~MissingSchedule(row) /\ ZeroSchedule(row)
              [] OTHER -> ~excluded /\ ~MissingSchedule(row) /\ ~ZeroSchedule(row)}

\* GET for the same interval once more, the Python client returning the
\* same records: the handler runs from its declarations to its response
\* without awaiting, so it is one step.
GetAgain ==
    /\ endpoint = "gridstatus-python-bridge"
    /\ response.status # 0
    /\ LET expanded == ExpandedDataDeclared(expandedData) \o ExpandAll(rawData)
           processed == Cardinality(RowsTaking("expand"))
       IN  IF Len(rawData) = 0
           THEN /\ response' = NoDataResponse
                /\ UNCHANGED <<idx, expandedData, processedUnitsCount, skippedForStatus,
                               skippedForZeroSchedule, skippedForMissingSchedule>>
           ELSE /\ idx' = Len(rawData) + 1
                /\ expandedData' = expanded
                /\ processedUnitsCount' = processed
                /\ skippedForStatus' = Cardinality(RowsTaking("status"))
                /\ skippedForZeroSchedule' = Cardinality(RowsTaking("zero"))
                /\ skippedForMissingSchedule' = Cardinality(RowsTaking("missing"))
                /\ response' = SuccessResponse(expanded, processed, rawData)
    /\ UNCHANGED <<rawData, stats, endpoint, chart, body, otherVars>>

\* ------------------------------------------------------------------ dashboard

\* Math.round(num / den), den > 0: halves round towards plus infinity.
MathRound(num, den) == (2 * num + den) \div (2 * den)

\* Real-time load readings (tenths of a MW); 0 stands for no reading.
RtLoads == {0, 5, 15, 30, 70}

\* actualDemand of the stats memo, with realData set (50000 MW default,
\* 70 % of the total capacity capped at 80 GW without a reading).
ActualDemand(realData, rtLoad) ==
    IF rtLoad # 0 THEN rtLoad
    ELSE IF Len(realData.rawSupplyCurve) > 0
         THEN Min((7 * realData.totalCapacity) \div 10, 800000)
         ELSE 500000

\* The first loop with the marginal unit counted in full.
RECURSIVE ClearingLoopFullMarginal(_, _, _, _, _, _)
ClearingLoopFullMarginal(sortedData, k, actualDemand, cumulativeCapacity, dispatchedCapacity, weightedCostSum) ==
    IF k > Len(sortedData)
    THEN [clearingPrice |-> 50000, marginalResourceType |-> "TBD",
          dispatchedCapacity |-> dispatchedCapacity,
          weightedCostSum |-> weightedCostSum]
    ELSE
      LET point == sortedData[k]
      IN  IF cumulativeCapacity + point.mw >= actualDemand
          THEN [clearingPrice |-> point.price,
                marginalResourceType |-> OrElse(point.resource_type, "Unknown"),
                dispatchedCapacity |-> dispatchedCapacity + point.mw,
                weightedCostSum |-> weightedCostSum + point.price * point.mw]
          ELSE ClearingLoopFullMarginal(sortedData, k + 1, actualDemand,
                                        cumulativeCapacity + point.mw,
                                        dispatchedCapacity + point.mw,
                                        weightedCostSum + point.price * point.mw)

\* First loop of stats from position k on: clearing price (default 50),
\* marginal type (default 'TBD') and the dispatched sums.
RECURSIVE ClearingLoop(_, _, _, _, _, _)
ClearingLoop(sortedData, k, actualDemand, cumulativeCapacity, dispatchedCapacity, weightedCostSum) ==
    IF k > Len(sortedData)
    THEN [clearingPrice |-> 50000, marginalResourceType |-> "TBD",
          dispatchedCapacity |-> dispatchedCapacity,
          weightedCostSum |-> weightedCostSum]
    ELSE
      LET point == sortedData[k]
      IN  IF cumulativeCapacity + point.mw >= actualDemand
          THEN LET marginalCapacity == actualDemand - cumulativeCapacity
               IN  [clearingPrice |-> point.price,
                    marginalResourceType |-> OrElse(point.resource_type, "Unknown"),
                    dispatchedCapacity |-> dispatchedCapacity + marginalCapacity,
                    weightedCostSum |-> weightedCostSum + point.price * marginalCapacity]
          ELSE ClearingLoop(sortedData, k + 1, actualDemand,
                            cumulativeCapacity + point.mw,
                            dispatchedCapacity + point.mw,
                            weightedCostSum + point.price * point.mw)

Add(map, key, amount) ==
    [t \in DOMAIN map \cup {key} |->
        IF t = key THEN (IF key \in DOMAIN map THEN map[key] ELSE 0) + amount
        ELSE map[t]]

\* The second loop with the marginal unit dispatched in full.
RECURSIVE DispatchLoopFullMarginal(_, _, _, _, _)
DispatchLoopFullMarginal(sortedData, k, actualDemand, runningCapacity, dispatchedUnits) ==
    IF k > Len(sortedData) THEN dispatchedUnits
    ELSE
      LET point == sortedData[k]
          resourceType == OrElse(point.resource_type, "OTHER")
      IN  IF runningCapacity + point.mw >= actualDemand
          THEN Add(dispatchedUnits, resourceType, point.mw)
          ELSE DispatchLoopFullMarginal(sortedData, k + 1, actualDemand,
                                        runningCapacity + point.mw,
                                        Add(dispatchedUnits, resourceType, point.mw))

\* Second loop of stats from position k on: dispatched capacity by type.
RECURSIVE DispatchLoop(_, _, _, _, _)
DispatchLoop(sortedData, k, actualDemand, runningCapacity, dispatchedUnits) ==
    IF k > Len(sortedData) THEN dispatchedUnits
    ELSE
      LET point == sortedData[k]
          resourceType == OrElse(point.resource_type, "OTHER")
      IN  IF runningCapacity + point.mw >= actualDemand
          THEN Add(dispatchedUnits, resourceType, actualDemand - runningCapacity)
          ELSE DispatchLoop(sortedData, k + 1, actualDemand,
                            runningCapacity + point.mw,
                            Add(dispatchedUnits, resourceType, point.mw))

\* The stats memo for realData (the data of a success response) and a
\* real-time load reading; loop holds the first loop's unrounded results.
Stats(realData, rtLoad) ==
    LET actualDemand == ActualDemand(realData, rtLoad)
        sourceData == realData.rawSupplyCurve
    IN  IF Len(sourceData) > 0
        THEN
          LET sortedData == Sort("price", sourceData)
              loop == ClearingLoop(sortedData, 1, actualDemand, 0, 0, 0)
          IN  [computed |-> TRUE,
               actualDemand |-> actualDemand,
               loop |-> loop,
               totalDemand |-> 10 * MathRound(actualDemand, 10),
               clearingPrice |-> 10 * MathRound(loop.clearingPrice, 10),
               avgGenCost |->
                   IF loop.dispatchedCapacity > 0
                   THEN 10 * MathRound(loop.weightedCostSum,
                                       10 * loop.dispatchedCapacity)
                   ELSE 0,
               marginalUnit |-> loop.marginalResourceType,
               dispatchedUnits |-> DispatchLoop(sortedData, 1, actualDemand, 0, EmptyMap)]
        ELSE
          [computed |-> TRUE,
           actualDemand |-> actualDemand,
           totalDemand |-> 10 * MathRound(actualDemand, 10),
           clearingPrice |-> 0,
           avgGenCost |-> 0,
           marginalUnit |-> "No Data",
           dispatchedUnits |-> EmptyMap]

NoStats == [computed |-> FALSE]

\* The memo is computed for the loaded response and the real-time load
\* reading fetched along with it.
ComputeStats ==
    /\ response.status = 200
    /\ ~stats.computed
    /\ \E rtLoad \in RtLoads : stats' = Stats(response.data, rtLoad)
    /\ UNCHANGED <<rawData, idx, expandedData, processedUnitsCount, skippedForStatus,
                   skippedForZeroSchedule, skippedForMissingSchedule, response, endpoint, chart, body, otherVars>>

\* ------------------------------------------------------------------ chart endpoint

ExpandedDataPoint(row, i, mw, price) ==
    [unit_code |-> OrElse(row.resource_name, "Unit_" \o ToString(i - 1)),
     fuel_type |-> OrElse(row.resource_type, "Unknown"),
     mw |-> mw, price |-> price, cumulative_mw |-> 0]

\* The  for (const point of curve)  loop of row i from point k on.
RECURSIVE ProcessCurve(_, _, _, _)
ProcessCurve(row, i, k, prevMw) ==
    LET curve == row.sced_tpo_offer_curve
    IN  IF k > Len(curve) THEN <<>>
        ELSE
          LET point == curve[k]
          IN  IF Len(point) >= 2
              THEN LET mw == point[1]
                       price == point[2]
                       mwSegment == mw - prevMw
                   IN  (IF mwSegment > 0
                        THEN << ExpandedDataPoint(row, i, mwSegment, price) >>
                        ELSE <<>>)
                       \o ProcessCurve(row, i, k + 1, mw)
              ELSE ProcessCurve(row, i, k + 1, prevMw)

\* The  for (let i = 0; ...)  loop over the rows from row i on.
RECURSIVE ProcessRows(_, _)
ProcessRows(rows, i) ==
    IF i > Len(rows) THEN <<>>
    ELSE ProcessCurve(rows[i], i, 1, 0) \o ProcessRows(rows, i + 1)

\* The loop assigning cumulative_mw from position k on.
RECURSIVE CumulativeMw(_, _, _)
CumulativeMw(s, k, cumulativeMw) ==
    IF k > Len(s) THEN <<>>
    ELSE << [s[k] EXCEPT !.cumulative_mw = cumulativeMw + s[k].mw] >>
         \o CumulativeMw(s, k + 1, cumulativeMw + s[k].mw)

\* The loader without its sort by price.
loadAndProcessInRowOrder(rows) == CumulativeMw(ProcessRows(rows, 1), 1, 0)

loadAndProcessDatabaseData(rows) ==
    CumulativeMw(Sort("price", ProcessRows(rows, 1)), 1, 0)

\* The loop finding the clearing price (default 0) from position k on.
RECURSIVE ChartClearingPrice(_, _, _)
ChartClearingPrice(data, k, demand) ==
    IF k > Len(data) THEN 0
    ELSE IF data[k].cumulative_mw >= demand THEN data[k].price
    ELSE ChartClearingPrice(data, k + 1, demand)

\* resourceColors of the chart: the exact fuel types and their colors.
resourceColors ==
    << <<"WIND", "#2E8B57">>, <<"PVGR", "#FFD700">>, <<"SOLAR", "#FFD700">>,
       <<"HYDRO", "#4682B4">>, <<"NUCLEAR", "#32CD32">>, <<"COAL", "#8B4513">>,
       <<"GAS", "#FF6347">>, <<"CC", "#FF4500">>, <<"GT", "#FF8C00">>,
       <<"STEAM", "#DC143C">>, <<"BIOMASS", "#228B22">>, <<"PWRSTR", "#9932CC">>,
       <<"ESR", "#9932CC">>, <<"DC", "#FF1493">>, <<"SYNC_COND", "#708090">>,
       <<"OTHER", "#696969">>, <<"UNKNOWN", "#A9A9A9">> >>

\* The partial matches of the chart, in the order they are tried.
ChartPartialMatches ==
    << <<{"WIND"}, Value(resourceColors, "WIND")>>,
       <<{"SOLAR", "PV"}, Value(resourceColors, "PVGR")>>,
       <<{"HYDRO"}, Value(resourceColors, "HYDRO")>>,
       <<{"NUCLEAR"}, Value(resourceColors, "NUCLEAR")>>,
       <<{"COAL"}, Value(resourceColors, "COAL")>>,
       <<{"GAS", "NG"}, Value(resourceColors, "GAS")>>,
       <<{"CC", "COMBINED"}, Value(resourceColors, "CC")>>,
       <<{"GT", "TURBINE"}, Value(resourceColors, "GT")>>,
       <<{"STEAM"}, Value(resourceColors, "STEAM")>>,
       <<{"BIOMASS", "BIO"}, Value(resourceColors, "BIOMASS")>>,
       <<{"BESS", "BATTERY", "STORAGE"}, Value(resourceColors, "PWRSTR")>> >>

\* getColorForResourceType of the chart: exact match on the type in upper
\* case, then partial matches, then the color of OTHER.
chartColorForResourceType(resourceType) ==
    LET resourceTypeUpper == toUpperCase(resourceType)
    IN  IF resourceTypeUpper \in Keys(resourceColors)
        THEN Value(resourceColors, resourceTypeUpper)
        ELSE FirstMatch(ChartPartialMatches, 1, resourceTypeUpper,
                        Value(resourceColors, "OTHER"))

\* The chart's getColorForResourceType over the strings a fuel type can
\* be, the empty string among them, evaluated once.
fuelTypeColor ==
    [type \in ResourceTypes \cup ColorTypes \cup {"Unknown"} |->
        chartColorForResourceType(type)]

\* What the chart holds of the data: the demand at 75 % of the total
\* capacity, floored to a whole MW, and the clearing price at that demand.
generatePlotlyChart(data) ==
    LET totalCapacity == SumMw(data)
        demand == 10 * ((3 * totalCapacity) \div 40)
    IN  [totalCapacity |-> totalCapacity,
         demand |-> demand,
         colors |-> [k \in 1..Len(data) |->
                        fuelTypeColor[data[k].fuel_type]],
         clearingPrice |-> ChartClearingPrice(data, 1, demand)]

\* What the dashboard's status selection can be: 'All', or statuses.
ResourceStatusSelections == {{"All"}, {"ON"}}

\* The hour a chart is requested for, an hour standing for the date and
\* hour of the request body, and the hours rows are stored for.
RequestedHours == {14}
StoredHours == {14, 15}

\* No chart request was made.
NoBody == [resourceStatuses |-> {}, hour |-> 0]

\* POST: the rows are loaded and expanded and the chart is generated.  With
\* no data point the 90th percentile of the prices is undefined and its
\* toFixed throws: the handler answers 500.
GenerateSupplyCurveJs ==
    /\ endpoint = "generate-supply-curve-js"
    /\ chart.status = 0
    /\ \E resourceStatuses \in ResourceStatusSelections, hour \in RequestedHours :
          body' = [resourceStatuses |-> resourceStatuses, hour |-> hour]
    /\ LET offerCurveData == loadAndProcessDatabaseData(rawData)
       IN  chart' = IF offerCurveData = <<>>
                    THEN [status |-> 500, success |-> FALSE]
                    ELSE [status |-> 200, success |-> TRUE,
                          data |-> offerCurveData,
                          chartConfig |-> generatePlotlyChart(offerCurveData),
                          dataPoints |-> Len(offerCurveData)]
    /\ UNCHANGED <<rawData, idx, expandedData, processedUnitsCount, skippedForStatus,
                   skippedForZeroSchedule, skippedForMissingSchedule, response, stats,
                   endpoint, otherVars>>

\* ------------------------------------------------------------------ mock data

\* const excludedStatuses of the CSV loader.
mockExcludedStatuses == {"ONTEST", "OFFQS", "OFFNS", "OFF", "OUT", "SHUTDOWN"}

OfferCurveSegment(row, mw, price) ==
    [resource_name |-> row.resource_name, resource_type |-> row.resource_type,
     mw |-> mw, price |-> price]

\* The loop running j over every point but the last.
FromEachPoint(offerCurve) == 1..(Len(offerCurve) - 1)

\* The  for (let j = 0; j < offerCurve.length - 1; j++)  loop from j on:
\* a segment from each point to the next, at the next point's price.
\* Prices below -500 and above 10000 are left out.
RECURSIVE ConvertPoints(_, _)
ConvertPoints(row, j) ==
    LET offerCurve == row.sced_tpo_offer_curve
    IN  IF j \notin FromEachPoint(offerCurve) THEN <<>>
        ELSE
          LET currentPoint == offerCurve[j]
              nextPoint == offerCurve[j + 1]
          IN  IF Len(currentPoint) < 2 \/ Len(nextPoint) < 2
              THEN ConvertPoints(row, j + 1)
              ELSE
                LET startMW == currentPoint[1]
                    endMW == nextPoint[1]
                    price == nextPoint[2]
                    segmentMW == endMW - startMW
                IN  IF segmentMW <= 0 THEN ConvertPoints(row, j + 1)
                    ELSE IF price < -500000 \/ price > 10000000
                    THEN ConvertPoints(row, j + 1)
                    ELSE << OfferCurveSegment(row, segmentMW, price) >>
                         \o ConvertPoints(row, j + 1)

\* The  for (let i = 1; i < lines.length; i++)  loop from record i on: the
\* records without a name, a type or a curve and those out of service
\* are passed over.
RECURSIVE ParseLines(_, _)
ParseLines(records, i) ==
    IF i > Len(records) THEN <<>>
    ELSE LET row == records[i]
         IN  (IF row.resource_name = "" \/ row.resource_type = "" THEN <<>>
              ELSE IF row.telemetered_resource_status \in mockExcludedStatuses THEN <<>>
              ELSE IF Len(row.sced_tpo_offer_curve) = 0 THEN <<>>
              ELSE ConvertPoints(row, 1))
             \o ParseLines(records, i + 1)

\* parseMockCSV on the records: the segments, sorted by price.
parseMockCSV(records) == Sort("price", ParseLines(records, 1))

NotLoaded == [loaded |-> FALSE]

\* loadCSVData of the dashboard's mount effect.
LoadCSVData ==
    /\ ~csvMockData.loaded
    /\ csvMockData' = [loaded |-> TRUE, data |-> parseMockCSV(lines)]
    /\ UNCHANGED <<rawData, idx, expandedData, processedUnitsCount, skippedForStatus,
                   skippedForZeroSchedule, skippedForMissingSchedule, response, stats,
                   endpoint, chart, body, lines, jsDashboardVars, pythonVars>>

\* ------------------------------------------------------------------ JS dashboard

\* The dates a supply curve can be asked for.
Dates == {"2025-06-10", "2025-06-11"}

\* A generateChart call awaiting its fetch.
Pending == [status |-> 0]

\* What the call of generateChart for a date gets from the chart endpoint:
\* a chart for the date, or an error.
Results(date) ==
    {[status |-> 200, success |-> TRUE, chartConfig |-> date],
     [status |-> 500, success |-> FALSE, error |-> "Failed to load database data"]}

\* generateChart up to its fetch: the request is made with the date of
\* the render the call comes from.
generateChart(date) ==
    /\ Len(requests) < MaxRequests
    /\ loading' = TRUE
    /\ error' = "null"
    /\ requests' = Append(requests, [date |-> date, result |-> Pending])
    /\ UNCHANGED <<chartData, shownActualDemand>>

\* fetchAvailableDates has returned: the latest date is selected,
\* datesLoading is reset, and the effect on them generates the chart.
DatesLoaded ==
    /\ datesLoading
    /\ datesLoading' = FALSE
    /\ \E latest \in Dates : selectedDate' = latest /\ generateChart(latest)
    /\ UNCHANGED <<rawData, idx, expandedData, processedUnitsCount, skippedForStatus,
                   skippedForZeroSchedule, skippedForMissingSchedule, response, stats,
                   endpoint, chart, body, lines, csvMockData,
                   pythonVars>>

\* Another date is picked in the calendar, which is disabled while the
\* dates load only: the effect on selectedDate generates the chart.
ChangeDate ==
    /\ ~datesLoading
    /\ \E date \in Dates \ {selectedDate} :
          selectedDate' = date /\ generateChart(date)
    /\ UNCHANGED <<rawData, idx, expandedData, processedUnitsCount, skippedForStatus,
                   skippedForZeroSchedule, skippedForMissingSchedule, response, stats,
                   endpoint, chart, body, lines, csvMockData, datesLoading,
                   pythonVars>>

\* The Apply button, disabled while loading.
Apply ==
    /\ ~loading
    /\ generateChart(selectedDate)
    /\ UNCHANGED <<rawData, idx, expandedData, processedUnitsCount, skippedForStatus,
                   skippedForZeroSchedule, skippedForMissingSchedule, response, stats,
                   endpoint, chart, body, lines, csvMockData, selectedDate, datesLoading,
                   pythonVars>>

\* The fetch of call n returns and the call runs to its end: chartData
\* and actualDemand are set on success (the endpoint sends no
\* actualDemand), error otherwise, and loading is reset.
Respond ==
    /\ \E n \in 1..Len(requests) :
          /\ requests[n].result = Pending
          /\ \E result \in Results(requests[n].date) :
                /\ requests' = [requests EXCEPT ![n].result = result]
                /\ IF result.success
                   THEN /\ chartData' = result.chartConfig
                        /\ shownActualDemand' = "undefined"
                        /\ UNCHANGED error
                   ELSE /\ error' = OrElse(result.error, "Failed to generate chart")
                        /\ UNCHANGED <<chartData, shownActualDemand>>
    /\ loading' = FALSE
    /\ UNCHANGED <<rawData, idx, expandedData, processedUnitsCount, skippedForStatus,
                   skippedForZeroSchedule, skippedForMissingSchedule, response, stats,
                   endpoint, chart, body, lines, csvMockData, selectedDate, datesLoading,
                   pythonVars>>

\* ------------------------------------------------------------------ Python client

\* What the process has written to stdout when it closes: nothing, blanks,
\* a traceback, or the JSON of a result with success true or false.
Stdouts ==
    {"", " ", "Traceback", "{\"success\": true}", "{\"success\": true} ",
     "{\"success\": false}"}

\* Exit codes of the process; -1 stands for null, the code of a process
\* ended by a signal.
ExitCodes == {0, 1, -1}

\* String.prototype.trim, for blanks.
RECURSIVE trim(_)
trim(s) ==
    IF Len(s) = 0 THEN s
    ELSE IF SubSeq(s, 1, 1) = " " THEN trim(SubSeq(s, 2, Len(s)))
    ELSE IF SubSeq(s, Len(s), Len(s)) = " " THEN trim(SubSeq(s, 1, Len(s) - 1))
    ELSE s

\* JSON.parse on what stdout can hold: the value, or thrown.
JSONParse(text) ==
    IF text = "{\"success\": true}" THEN [thrown |-> FALSE, value |-> [success |-> TRUE]]
    ELSE IF text = "{\"success\": false}" THEN [thrown |-> FALSE, value |-> [success |-> FALSE]]
    ELSE [thrown |-> TRUE]

\* resolve and reject of the promise: they settle a pending promise and
\* leave a settled one as it is.
Resolve(p, value) ==
    IF p.state = "pending" THEN [state |-> "fulfilled", value |-> value] ELSE p
Reject(p, reason) ==
    IF p.state = "pending" THEN [state |-> "rejected", reason |-> reason] ELSE p

\* The 'close' handler rejecting for an exit code other than 0.
OnCloseByExitCode(p, code, stdout) ==
    IF code # 0 THEN Reject(p, "Python script failed")
    ELSE IF trim(stdout) # "" /\ ~JSONParse(trim(stdout)).thrown
            /\ JSONParse(trim(stdout)).value.success
    THEN Resolve(p, JSONParse(trim(stdout)).value)
    ELSE Reject(p, "Python script failed")

\* The 'close' handler: stdout is parsed whatever the exit code.
OnClose(p, code, stdout) ==
    IF trim(stdout) # ""
    THEN LET result == JSONParse(trim(stdout))
         IN  IF result.thrown THEN Reject(p, "Failed to parse Python JSON output")
             ELSE IF result.value.success THEN Resolve(p, result.value)
             ELSE Reject(p, "Python script returned error")
    ELSE Reject(p, "Python script failed")

Fired(type) == \E k \in 1..Len(events) : events[k].type = type

\* The process closes, once; one that was killed has no exit code.
Close ==
    /\ ~Fired("close")
    /\ \E code \in ExitCodes, stdout \in Stdouts :
          /\ killed => code = -1
          /\ events' = Append(events, [type |-> "close", code |-> code, stdout |-> stdout])
          /\ promise' = OnClose(promise, code, stdout)
    /\ UNCHANGED <<rawData, idx, expandedData, processedUnitsCount, skippedForStatus,
                   skippedForZeroSchedule, skippedForMissingSchedule, response, stats,
                   endpoint, chart, body, lines, csvMockData, jsDashboardVars, killed>>

\* The process could not be spawned or signalled: the 'error' handler.
ProcessError ==
    /\ ~Fired("error")
    /\ events' = Append(events, [type |-> "error", code |-> -1, stdout |-> ""])
    /\ promise' = Reject(promise, "Failed to start Python process")
    /\ UNCHANGED <<rawData, idx, expandedData, processedUnitsCount, skippedForStatus,
                   skippedForZeroSchedule, skippedForMissingSchedule, response, stats,
                   endpoint, chart, body, lines, csvMockData, jsDashboardVars, killed>>

\* The timer of 120 seconds fires: nothing else kills the process, so
\* killed is false; kill() sets it if the process is there to be
\* signalled, and the promise is rejected.
Timeout ==
    /\ ~Fired("timeout")
    /\ events' = Append(events, [type |-> "timeout", code |-> -1, stdout |-> ""])
    /\ IF ~killed
       THEN /\ killed' = (~Fired("close") /\ ~Fired("error"))
            /\ promise' = Reject(promise, "Python script timeout")
       ELSE UNCHANGED <<killed, promise>>
    /\ UNCHANGED <<rawData, idx, expandedData, processedUnitsCount, skippedForStatus,
                   skippedForZeroSchedule, skippedForMissingSchedule, response, stats,
                   endpoint, chart, body, lines, csvMockData, jsDashboardVars>>

\* ------------------------------------------------------------------ specifications

InitState ==
    /\ idx = 1
    /\ expandedData = <<>>
    /\ processedUnitsCount = 0
    /\ skippedForStatus = 0
    /\ skippedForZeroSchedule = 0
    /\ skippedForMissingSchedule = 0
    /\ response = NoResponse
    /\ stats = NoStats
    /\ endpoint \in {"gridstatus-python-bridge", "generate-supply-curve-js"}
    /\ chart = NoResponse
    /\ body = NoBody
    /\ csvMockData = NotLoaded
    /\ selectedDate = "2025-06-11"
    /\ datesLoading = TRUE
    /\ loading = FALSE
    /\ error = "null"
    /\ chartData = "null"
    /\ shownActualDemand = "null"
    /\ requests = <<>>
    /\ promise = [state |-> "pending"]
    /\ events = <<>>
    /\ killed = FALSE

\* The records of the requested interval: a market snapshot of up to
\* MaxRows records, or a single record in every combination of status,
\* type, schedule and curve of up to MaxPoints points, or the scheduled
\* wind generator.
Init ==
    /\ lines = <<>>
    /\ \/ \E n \in 0..MaxRows : rawData \in [1..n -> MarketRows]
       \/ \E t \in ResourceTypes, s \in Statuses, o \in Schedules :
            \E n \in 0..MaxPoints : \E c \in [1..n -> Points] :
               rawData = << Row("G1", t, s, c, o) >>
       \/ rawData = << ScheduledWind >>
    /\ InitState

Next ==
    \/ SkipStatus
    \/ SkipMissingSchedule
    \/ SkipZeroSchedule
    \/ ExpandRow
    \/ ThrowNoData
    \/ SendResponse
    \/ GetAgain
    \/ ComputeStats
    \/ GenerateSupplyCurveJs

Spec == Init /\ [][Next]_vars

\* Up to MaxRows available records of these types, each offering one step.
InitColor ==
    /\ lines = <<>>
    /\ \E n \in 1..MaxRows :
          rawData \in [1..n -> {Row("G1", t, "ON", << <<10, 20004>> >>, <<20>>) :
                                   t \in ColorTypes}]
    /\ InitState

NextColor ==
    \/ ExpandRow
    \/ SendResponse
    \/ GetAgain
    \/ ComputeStats
    \/ GenerateSupplyCurveJs

SpecColor == InitColor /\ [][NextColor]_vars

\* A row of the offer-curve table: a record and the hour of its interval.
Stored(row, hour) ==
    [f \in DOMAIN row \cup {"interval_start_utc"} |->
        IF f = "interval_start_utc" THEN hour ELSE row[f]]

\* The table holds up to MaxRows rows, of the stored hours; the query
\* of the chart endpoint has no WHERE clause and returns them all.
InitInterval ==
    /\ lines = <<>>
    /\ \E n \in 1..MaxRows :
          rawData \in [1..n -> {Stored(Row("G1", t, "ON", c, <<20>>), hour) :
                                   t \in {"WIND", "NUC"}, c \in MarketCurves,
                                   hour \in StoredHours}]
    /\ InitState
    /\ endpoint = "generate-supply-curve-js"

NextInterval == GenerateSupplyCurveJs

SpecInterval == InitInterval /\ [][NextInterval]_vars

\* The statuses and points of the mock file: a status only the loader
\* excludes, and a price above the loader's range.
MockStatuses == {"ON", "OFFQS", "OUT"}
MockPoints == Points \cup {<<30, 10000001>>}

\* The mock file holds one record, in every combination of name, type,
\* status and curve of up to MaxPoints points, or none.
InitMock ==
    /\ rawData = <<>>
    /\ \/ lines = <<>>
       \/ \E name \in {"G1", ""}, t \in ResourceTypes, s \in MockStatuses :
            \E n \in 0..MaxPoints : \E c \in [1..n -> MockPoints] :
               lines = << Row(name, t, s, c, <<>>) >>
    /\ InitState

NextMock == LoadCSVData

SpecMock == InitMock /\ [][NextMock]_vars

\* The JS dashboard after its first render.
InitDashboard ==
    /\ rawData = <<>>
    /\ lines = <<>>
    /\ InitState
    /\ endpoint = "generate-supply-curve-js"

NextDashboard ==
    \/ DatesLoaded
    \/ ChangeDate
    \/ Apply
    \/ Respond

SpecDashboard == InitDashboard /\ [][NextDashboard]_vars

\* runPythonScript has spawned the process and returned its promise.
InitPython ==
    /\ rawData = <<>>
    /\ lines = <<>>
    /\ InitState
    /\ endpoint = "gridstatus-python-bridge"

NextPython ==
    \/ Close
    \/ ProcessError
    \/ Timeout

SpecPython == InitPython /\ [][NextPython]_vars

\* ------------------------------------------------------------------ properties

Answered == response.status = 200

\* The supply curve of the success response.
Curve == response.data.rawSupplyCurve

RECURSIVE SumCapacity(_, _)
SumCapacity(map, keys) ==
    IF keys = {} THEN 0
    ELSE LET t == CHOOSE x \in keys : TRUE
         IN  map[t].capacity + SumCapacity(map, keys \ {t})

\* C1  Merit order: in the returned supply curve, prices never decrease
\* from one position to a later one, and between two points of equal price
\* the earlier one is not the wider.
C1_MeritOrder ==
    Answered =>
        \A i, j \in 1..Len(Curve) :
            i < j => /\ Curve[i].price <= Curve[j].price
                     /\ (Curve[i].price = Curve[j].price => Curve[i].mw <= Curve[j].mw)

\* A curve was returned for segments pushed out of merit order: a wider
\* segment was pushed before a narrower one of the same price.
C1_Witness ==
    /\ Answered
    /\ \E i, j \in 1..Len(expandedData) :
          /\ i < j
          /\ expandedData[i].price = expandedData[j].price
          /\ expandedData[i].mw > expandedData[j].mw

\* C2  Cumulative capacity: the first point of the returned curve starts
\* at 0, every point ends at its start plus its mw, and every point starts
\* where its predecessor ends.
C2_CumulativeCapacity ==
    Answered =>
        /\ Len(Curve) > 0 => Curve[1].cumulativeCapacity = 0
        /\ \A i \in 1..Len(Curve) :
              Curve[i].cumulativeCapacityEnd = Curve[i].cumulativeCapacity + Curve[i].mw
        /\ \A i \in 1..(Len(Curve) - 1) :
              Curve[i + 1].cumulativeCapacity = Curve[i].cumulativeCapacityEnd

\* A curve of at least three points was returned.
C2_Witness == Answered /\ Len(Curve) >= 3

\* C3  Conservation: the returned totalCapacity is the sum of mw over the
\* returned curve and the sum of capacity over the resource-type summary.
C3_Conservation ==
    Answered =>
        LET summary == response.data.resourceTypeSummary
        IN  /\ response.data.totalCapacity = SumMw(Curve)
            /\ response.data.totalCapacity = SumCapacity(summary, DOMAIN summary)

\* A curve was returned that holds two points of the placeholder type and
\* a point of another type.
C3_Witness ==
    /\ Answered
    /\ \E i, j, k \in 1..Len(Curve) :
          /\ i < j
          /\ Curve[i].resource_type = "UNKNOWN_TYPE"
          /\ Curve[j].resource_type = "UNKNOWN_TYPE"
          /\ Curve[k].resource_type = "NUC"

\* The record of the forEach step being taken, and what the step pushes.
StepRow == rawData[idx]
Pushed == SubSeq(expandedData', Len(expandedData) + 1, Len(expandedData'))

Available(row) == row.telemetered_resource_status \notin {"OUT", "OFF", "OFFNS"}
Renewable(row) == row.resource_type \in {"WIND", "PVGR"}
HasSchedule(row) == row.output_schedule # <<>>

\* The offer curve is a list of [cumulativeMW, price] pairs whose
\* cumulativeMW never decreases.
NonDecreasing(curve) ==
    /\ \A k \in 1..Len(curve) : Len(curve[k]) = 2
    /\ \A k \in 1..(Len(curve) - 1) : curve[k][1] <= curve[k + 1][1]

\* The final cumulativeMW of a curve: the capacity of the full curve.
FinalMw(curve) == IF curve = <<>> THEN 0 ELSE curve[Len(curve)][1]

\* The steps of a non-decreasing curve that have a positive width, as
\* (mw, price) with the width measured from the previous point (from 0 for
\* the first) and the price of the step's upper point.
PositiveSteps(curve) ==
    LET lower(k) == IF k = 1 THEN 0 ELSE curve[k - 1][1]
        ks == SelectSeq([k \in 1..Len(curve) |-> k], LAMBDA k : curve[k][1] - lower(k) > 0)
    IN  [n \in 1..Len(ks) |-> <<curve[ks[n]][1] - lower(ks[n]), curve[ks[n]][2]>>]

MwPrice(segments) == [n \in 1..Len(segments) |-> <<segments[n].mw, segments[n].price>>]

\* C4  Renewable truncation bound: the step on an available WIND or PVGR
\* record with a schedule above 0 and a non-decreasing curve pushes segments
\* whose mw sum to min(outputSchedule, final cumulativeMW of the curve).
C4_RenewableTruncation ==
    [][ (idx' = idx + 1 /\ Available(StepRow) /\ Renewable(StepRow)
            /\ HasSchedule(StepRow) /\ StepRow.output_schedule[1] > 0
            /\ NonDecreasing(StepRow.sced_tpo_offer_curve))
        => SumMw(Pushed) = Min(StepRow.output_schedule[1],
                               FinalMw(StepRow.sced_tpo_offer_curve)) ]_vars

\* A renewable record was expanded whose schedule ends inside the second
\* step of its curve: two segments, the second one clipped.
C4_Witness ==
    /\ Len(rawData) = 1 /\ idx = 2
    /\ Available(rawData[1]) /\ Renewable(rawData[1])
    /\ rawData[1].sced_tpo_offer_curve = << <<10, -5000>>, <<30, 20004>> >>
    /\ rawData[1].output_schedule = <<20>>
    /\ MwPrice(expandedData) = << <<10, -5000>>, <<10, 20004>> >>

\* C5  Non-renewable completeness: the step on an available record with a
\* schedule, of a type other than WIND and PVGR and with a non-decreasing
\* curve, pushes one segment per positive-width step, priced at the step's
\* upper point, and their mw sum to the final cumulativeMW of the curve.
C5_NonRenewableCompleteness ==
    [][ (idx' = idx + 1 /\ Available(StepRow) /\ ~Renewable(StepRow)
            /\ HasSchedule(StepRow)
            /\ NonDecreasing(StepRow.sced_tpo_offer_curve))
        => /\ MwPrice(Pushed) = PositiveSteps(StepRow.sced_tpo_offer_curve)
           /\ SumMw(Pushed) = FinalMw(StepRow.sced_tpo_offer_curve) ]_vars

\* A non-renewable record with a curve of two positive steps was expanded
\* into two segments, the second as wide as the second step.
C5_Witness ==
    /\ Len(rawData) = 1 /\ idx = 2
    /\ Available(rawData[1]) /\ ~Renewable(rawData[1]) /\ HasSchedule(rawData[1])
    /\ rawData[1].sced_tpo_offer_curve = << <<10, 20004>>, <<30, 20004>> >>
    /\ MwPrice(expandedData) = << <<10, 20004>>, <<20, 20004>> >>

\* C6  Status exclusion: the returned curve, summary and total capacity are
\* those of the input without its OUT, OFF and OFFNS records, and nothing
\* is returned for an input of such records only.
C6_StatusExclusion ==
    Answered =>
        /\ response.data = ResponseData(ExpandAll(SelectSeq(rawData, Available)))
        /\ (\A i \in 1..Len(rawData) : ~Available(rawData[i]))
              => /\ Curve = <<>>
                 /\ response.data.totalCapacity = 0
                 /\ DOMAIN response.data.resourceTypeSummary = {}

\* A response was built from an OFFNS record that offers capacity and has
\* a schedule, and from a record that put segments on the curve.
C6_Witness ==
    /\ Answered /\ Len(Curve) > 0
    /\ \E i \in 1..Len(rawData) :
          /\ rawData[i].telemetered_resource_status = "OFFNS"
          /\ HasSchedule(rawData[i])
          /\ FinalMw(rawData[i].sced_tpo_offer_curve) > 0

\* The demand of the computed statistics, and the first point of the
\* returned curve that ends at or above it.
Demand == stats.actualDemand
Marginal ==
    CHOOSE i \in 1..Len(Curve) :
        /\ Curve[i].cumulativeCapacityEnd >= Demand
        /\ \A j \in 1..(i - 1) : Curve[j].cumulativeCapacityEnd < Demand

\* The demand drawn on the chart, and the first point of the chart's data
\* whose cumulative_mw is at or above it.
ChartDemand == chart.chartConfig.demand
ChartMarginal ==
    CHOOSE i \in 1..Len(chart.data) :
        /\ chart.data[i].cumulative_mw >= ChartDemand
        /\ \A j \in 1..(i - 1) : chart.data[j].cumulative_mw < ChartDemand

\* C7  Clearing price: for a demand above 0 and at most totalCapacity, the
\* clearing price found by the statistics is the price of the first point
\* of the returned curve whose cumulativeCapacityEnd reaches the demand, and
\* the marginal resource type is that point's type; and the clearing price
\* of the chart is the price of the first point of its data, which are in
\* price order, whose cumulative_mw reaches the chart's demand.
C7_ClearingPrice ==
    /\ (stats.computed /\ 0 < Demand /\ Demand <= response.data.totalCapacity)
          => /\ stats.loop.clearingPrice = Curve[Marginal].price
             /\ stats.loop.marginalResourceType = Curve[Marginal].resource_type
             /\ stats.marginalUnit = Curve[Marginal].resource_type
    /\ (chart.status = 200 /\ 0 < ChartDemand
           /\ ChartDemand <= chart.chartConfig.totalCapacity)
          => /\ chart.chartConfig.clearingPrice = chart.data[ChartMarginal].price
             /\ \A i \in 1..(Len(chart.data) - 1) :
                   chart.data[i].price <= chart.data[i + 1].price

\* Statistics were computed for a demand that ends exactly with the second
\* point of a curve of three points or more, the first of them cheaper.
C7_Witness ==
    /\ stats.computed /\ 0 < Demand /\ Demand <= response.data.totalCapacity
    /\ Len(Curve) >= 3
    /\ Marginal = 2
    /\ Curve[2].cumulativeCapacityEnd = Demand
    /\ Curve[1].price < Curve[2].price

\* A chart was generated whose demand is reached by a point after the
\* first, dearer than the first.
C7_ChartWitness ==
    /\ chart.status = 200 /\ 0 < ChartDemand
    /\ ChartMarginal > 1
    /\ chart.data[1].price < chart.data[ChartMarginal].price

\* C8  Supply shortfall: for a demand above the totalCapacity of a curve
\* with points, the statistics hold no number as the clearing price,
\* neither a price of the curve nor a default.
C8_ShortfallReported ==
    (stats.computed /\ Len(Curve) > 0 /\ Demand > response.data.totalCapacity)
        => ("clearingPrice" \in DOMAIN stats => stats.clearingPrice \notin Int)

\* C9  Missing schedule: the returned data are those of the input without
\* its records of missing outputSchedule, of whatever type; nothing is
\* returned for an input of such records only; and the records counted as
\* missing a schedule are the available ones without one, so that a
\* schedule of 0 is not counted.
C9_MissingSchedule ==
    /\ Answered =>
          /\ response.data = ResponseData(ExpandAll(SelectSeq(rawData, HasSchedule)))
          /\ (\A i \in 1..Len(rawData) : ~HasSchedule(rawData[i])) => Curve = <<>>
    /\ idx > Len(rawData) =>
          skippedForMissingSchedule =
              Cardinality({i \in 1..Len(rawData) :
                              Available(rawData[i]) /\ ~HasSchedule(rawData[i])})

\* A response was built from an available non-renewable record that offers
\* capacity and has no schedule, and from a record scheduled at 0 whose
\* segments are on the curve.
C9_Witness ==
    /\ Answered /\ Len(Curve) > 0
    /\ skippedForMissingSchedule = 1
    /\ \E i, j \in 1..Len(rawData) :
          /\ Available(rawData[i]) /\ ~Renewable(rawData[i])
          /\ ~HasSchedule(rawData[i])
          /\ FinalMw(rawData[i].sced_tpo_offer_curve) > 0
          /\ Available(rawData[j]) /\ rawData[j].output_schedule = <<0>>

\* A renewable scheduled at or below 0.
ZeroRenewable(row) ==
    Renewable(row) /\ HasSchedule(row) /\ row.output_schedule[1] <= 0

\* The records with the schedule of every non-renewable that has one
\* replaced by o.
Rescheduled(rows, o) ==
    [i \in 1..Len(rows) |->
        IF ~Renewable(rows[i]) /\ HasSchedule(rows[i])
        THEN [rows[i] EXCEPT !.output_schedule = o]
        ELSE rows[i]]

\* C10  Zero-schedule renewables: the returned data are those of the input
\* without its WIND and PVGR records scheduled at or below 0, and they do
\* not change when the schedule of the non-renewable records that have one
\* is replaced by any other value, at or below 0 or above.
C10_ZeroSchedule ==
    Answered =>
        /\ response.data =
              ResponseData(ExpandAll(SelectSeq(rawData, LAMBDA row : ~ZeroRenewable(row))))
        /\ \A o \in Schedules \ {<<>>} :
              response.data = ResponseData(ExpandAll(Rescheduled(rawData, o)))

\* A response was built from an available renewable scheduled at 0 that
\* offers capacity, and from an available non-renewable scheduled at 0
\* whose segments are on the curve.
C10_Witness ==
    /\ Answered /\ Len(Curve) > 0
    /\ \E i, j \in 1..Len(rawData) :
          /\ Available(rawData[i]) /\ ZeroRenewable(rawData[i])
          /\ FinalMw(rawData[i].sced_tpo_offer_curve) > 0
          /\ Available(rawData[j]) /\ ~Renewable(rawData[j])
          /\ rawData[j].output_schedule = <<0>>
          /\ FinalMw(rawData[j].sced_tpo_offer_curve) > 0

\* The capacity of point i of the returned curve that a demand of Demand
\* dispatches: all of it before the marginal point, the part up to the
\* demand of the marginal point, nothing after.
DispatchedMw(i) ==
    IF i < Marginal THEN Curve[i].mw
    ELSE IF i = Marginal THEN Demand - Curve[i].cumulativeCapacity
    ELSE 0

\* The dispatched capacity of the points of type t from point k on.
RECURSIVE DispatchedOfType(_, _)
DispatchedOfType(t, k) ==
    IF k > Len(Curve) THEN 0
    ELSE (IF Curve[k].resource_type = t THEN DispatchedMw(k) ELSE 0)
         + DispatchedOfType(t, k + 1)

\* The sum of the values of a map over keys.
RECURSIVE SumValues(_, _)
SumValues(map, keys) ==
    IF keys = {} THEN 0
    ELSE LET t == CHOOSE x \in keys : TRUE
         IN  map[t] + SumValues(map, keys \ {t})

Feasible == stats.computed /\ 0 < Demand /\ Demand <= response.data.totalCapacity

\* C11  Dispatched capacity by type: for a demand above 0 and at most
\* totalCapacity, the statistics report for each resource type the full mw
\* of its points before the marginal point plus, for the marginal point's
\* type, the demand less that point's cumulativeCapacity; the types
\* reported are those with a point up to the marginal one, and the
\* reported values sum to the demand.
C11_DispatchedByType ==
    Feasible =>
        /\ DOMAIN stats.dispatchedUnits =
              {Curve[i].resource_type : i \in 1..Marginal}
        /\ \A t \in DOMAIN stats.dispatchedUnits :
              stats.dispatchedUnits[t] = DispatchedOfType(t, 1)
        /\ SumValues(stats.dispatchedUnits, DOMAIN stats.dispatchedUnits) = Demand

\* Statistics were computed for a demand that ends inside the second point
\* of a curve, of another type than the first, with a point after it.
C11_Witness ==
    /\ Feasible
    /\ Marginal = 2 /\ Len(Curve) >= 3
    /\ Demand < Curve[2].cumulativeCapacityEnd
    /\ Curve[1].resource_type # Curve[2].resource_type

\* The dispatched capacity, and its cost, of the points from point k on.
RECURSIVE DispatchedFrom(_)
DispatchedFrom(k) ==
    IF k > Len(Curve) THEN 0 ELSE DispatchedMw(k) + DispatchedFrom(k + 1)

RECURSIVE DispatchedCostFrom(_)
DispatchedCostFrom(k) ==
    IF k > Len(Curve) THEN 0
    ELSE Curve[k].price * DispatchedMw(k) + DispatchedCostFrom(k + 1)

Abs(x) == IF x < 0 THEN -x ELSE x

\* C12  Capacity-weighted average cost: for a demand above 0 and at most
\* totalCapacity, the average generation cost is the quotient of
\* weightedCostSum, the sum of price times dispatched capacity over the
\* points of the curve, by dispatchedCapacity, the sum of the dispatched
\* capacities, which is the demand and the sum of the capacities reported
\* by type; the statistic shown is this quotient to the nearest cent.
C12_WeightedAverageCost ==
    Feasible =>
        /\ stats.loop.dispatchedCapacity = DispatchedFrom(1)
        /\ stats.loop.dispatchedCapacity = Demand
        /\ stats.loop.weightedCostSum = DispatchedCostFrom(1)
        /\ stats.loop.dispatchedCapacity
              = SumValues(stats.dispatchedUnits, DOMAIN stats.dispatchedUnits)
        /\ stats.avgGenCost % 10 = 0
        /\ 2 * Abs(stats.avgGenCost * stats.loop.dispatchedCapacity
                     - stats.loop.weightedCostSum)
              <= 10 * stats.loop.dispatchedCapacity

\* Statistics were computed for a demand that ends inside the second point
\* of a curve, dearer than the first, where the average is not a whole
\* number of cents.
C12_Witness ==
    /\ Feasible
    /\ Marginal = 2
    /\ Demand < Curve[2].cumulativeCapacityEnd
    /\ Curve[1].price < Curve[2].price
    /\ stats.avgGenCost * stats.loop.dispatchedCapacity # stats.loop.weightedCostSum

\* The positions of the returned curve's points of type t.
PointsOfType(t) == {i \in 1..Len(Curve) : Curve[i].resource_type = t}

\* C13  Summary marginal cost: resourceTypeSummary has one entry for each
\* resource type with a point on the returned curve and no other, and the
\* marginalCost of a type is the lowest price of its points, which is the
\* price of the first of them on the curve.
C13_SummaryMarginalCost ==
    Answered =>
        /\ DOMAIN response.data.resourceTypeSummary
              = {Curve[i].resource_type : i \in 1..Len(Curve)}
        /\ \A t \in DOMAIN response.data.resourceTypeSummary :
              LET first == CHOOSE i \in PointsOfType(t) :
                               \A j \in PointsOfType(t) : i <= j
                  cost == response.data.resourceTypeSummary[t].marginalCost
              IN  /\ cost = Curve[first].price
                  /\ \A j \in PointsOfType(t) : cost <= Curve[j].price

\* A response holds a curve with two points of one type at different
\* prices and a point of another type.
C13_Witness ==
    /\ Answered
    /\ \E i, j, k \in 1..Len(Curve) :
          /\ Curve[i].resource_type = Curve[j].resource_type
          /\ Curve[i].price < Curve[j].price
          /\ Curve[k].resource_type # Curve[i].resource_type

Malformed(curve, k) ==
    \/ Len(curve[k]) < 2
    \/ k > 1 /\ Len(curve[k - 1]) >= 2 /\ curve[k][1] < curve[k - 1][1]

\* The points of a curve before its first malformed point.
BeforeMalformed(curve) ==
    LET bad == {k \in 1..Len(curve) : Malformed(curve, k)}
    IN  IF bad = {} THEN curve
        ELSE SubSeq(curve, 1, (CHOOSE k \in bad : \A j \in bad : k <= j) - 1)

\* C15  Malformed curve policy: the step on a record pushes the segments of
\* the points before the first malformed point of its curve and none for
\* that point or a later one.
C15_MalformedCurvePolicy ==
    [][ (idx' = idx + 1 /\ Available(StepRow) /\ HasSchedule(StepRow))
        => LET wellFormed == [StepRow EXCEPT !.sced_tpo_offer_curve =
                                 BeforeMalformed(StepRow.sced_tpo_offer_curve)]
           IN  Pushed = IF ZeroSchedule(StepRow) THEN <<>>
                        ELSE ExpandCurve(wellFormed, 1, 0, 0) ]_vars

\* C16  Skip counts in the result: the metadata of a success response holds
\* the count of records skipped for status, the count skipped for a
\* missing schedule and the count skipped for a renewable schedule at or
\* below 0, each in a field of its own, whatever the fields are called.
C16_SkipCountsReturned ==
    Answered =>
        \E f, g, h \in DOMAIN response.metadata :
            /\ f # g /\ g # h /\ f # h
            /\ response.metadata[f] = skippedForStatus
            /\ response.metadata[g] = skippedForMissingSchedule
            /\ response.metadata[h] = skippedForZeroSchedule

\* A record that passes the status and schedule filters.
Eligible(row) == Available(row) /\ HasSchedule(row) /\ ~ZeroRenewable(row)

\* C17  Empty input: once the builder has answered an input without any
\* eligible record, be it empty or filtered out entirely, the answer is a
\* success with an empty curve, an empty summary and totalCapacity 0.
C17_EmptyInput ==
    (endpoint = "gridstatus-python-bridge" /\ response.status # 0
        /\ \A i \in 1..Len(rawData) : ~Eligible(rawData[i]))
    => /\ response.status = 200
       /\ response.data.rawSupplyCurve = <<>>
       /\ DOMAIN response.data.resourceTypeSummary = {}
       /\ response.data.totalCapacity = 0

\* The records with name for a missing resource_name, followed by the
\* record's position from 0 if numbered, and type for a missing
\* resource_type.
WithIdentifiers(rows, name, numbered, type) ==
    [i \in 1..Len(rows) |->
        [rows[i] EXCEPT
            !.resource_name = IF @ # "" THEN @
                              ELSE IF numbered THEN name \o ToString(i - 1)
                              ELSE name,
            !.resource_type = IF @ = "" THEN type ELSE @]]

\* C18  Missing identifiers: the builder's response for records without a
\* resource_name or resource_type is a success, the one it gives for the
\* same records named UNKNOWN_GENERATOR and typed UNKNOWN_TYPE, so that no
\* point of the curve and no key of the summary has an empty name or type;
\* the chart's data are those of the same records named Unit_<position>
\* and typed Unknown, and none has an empty unit_code or fuel_type.
C18_MissingIdentifiers ==
    /\ (endpoint = "gridstatus-python-bridge" /\ response.status # 0 /\ Len(rawData) > 0)
          => /\ Answered
             /\ response.data = ResponseData(ExpandAll(
                    WithIdentifiers(rawData, "UNKNOWN_GENERATOR", FALSE, "UNKNOWN_TYPE")))
             /\ \A i \in 1..Len(Curve) :
                   Curve[i].resource_name # "" /\ Curve[i].resource_type # ""
             /\ "" \notin DOMAIN response.data.resourceTypeSummary
    /\ chart.status = 200
          => /\ chart.data = loadAndProcessDatabaseData(
                    WithIdentifiers(rawData, "Unit_", TRUE, "Unknown"))
             /\ \A i \in 1..Len(chart.data) :
                   chart.data[i].unit_code # "" /\ chart.data[i].fuel_type # ""

\* A response was built from a record without name and type and another
\* with both, each with a point on the curve.
C18_Witness ==
    /\ Answered /\ Len(rawData) = 2
    /\ \E i, j \in 1..2 :
          /\ rawData[i].resource_name = "" /\ rawData[i].resource_type = ""
          /\ rawData[j].resource_name # "" /\ rawData[j].resource_type # ""
    /\ \E m, n \in 1..Len(Curve) :
          /\ Curve[m].resource_name = "UNKNOWN_GENERATOR"
          /\ Curve[m].resource_type = "UNKNOWN_TYPE"
          /\ Curve[n].resource_name = "G1"
          /\ Curve[n].resource_type \in {"WIND", "NUC"}

\* A chart was generated from a second record without name and type.
C18_ChartWitness ==
    /\ chart.status = 200
    /\ \E i \in 1..Len(chart.data) :
          chart.data[i].unit_code = "Unit_1" /\ chart.data[i].fuel_type = "Unknown"

\* The points of a chart's data without their unit_code.
Offers(data) ==
    [k \in 1..Len(data) |->
        <<data[k].fuel_type, data[k].mw, data[k].price, data[k].cumulative_mw>>]

\* The record may contribute under the request's status selection.
Allowed(row) ==
    IF "All" \in body.resourceStatuses THEN Available(row)
    ELSE row.telemetered_resource_status \in body.resourceStatuses

\* C19  Caller status filter: the chart generated for a request whose
\* resourceStatuses are not 'All' holds the points of the records whose
\* status is among them, and the chart generated for 'All' holds the
\* points of the records whose status is not OUT, OFF or OFFNS.
C19_CallerStatusFilter ==
    chart.status = 200 =>
        Offers(chart.data)
            = Offers(loadAndProcessDatabaseData(SelectSeq(rawData, Allowed)))

\* The color the cascade gives a type outside the table: the wind color
\* for a type including WIND, the storage color for one including BESS,
\* BATTERY or STORAGE, and for the types no rule of the cascade matches
\* the color other.
CascadeHolds(type, color, wind, storage, other, rules) ==
    LET upper == toUpperCase(type)
        substrings == UNION {rules[k][1] : k \in 1..Len(rules)}
    IN  /\ Includes(upper, "WIND") => color = wind
        /\ (~Includes(upper, "WIND")
              /\ \E needle \in {"BESS", "BATTERY", "STORAGE"} : Includes(upper, needle))
             => color = storage
        /\ (\A needle \in substrings : ~Includes(upper, needle)) => color = other

\* C20  Color cascade: the color of a resource type in the summary is its
\* colorMap color if the type is a key of colorMap and the color of the
\* cascade if not; the color of a point of the chart is its
\* resourceColors color if its type in upper case is a key of
\* resourceColors and the color of the cascade if not.
C20_ColorCascade ==
    /\ Answered =>
          \A t \in DOMAIN response.data.resourceTypeSummary :
              LET color == response.data.resourceTypeSummary[t].color
              IN  IF t \in Keys(colorMap) THEN color = Value(colorMap, t)
                  ELSE CascadeHolds(t, color, "#22C55E", "#059669", "#6B7280",
                                    PartialMatches)
    /\ chart.status = 200 =>
          \A k \in 1..Len(chart.data) :
              LET t == chart.data[k].fuel_type
                  color == chart.chartConfig.colors[k]
              IN  IF toUpperCase(t) \in Keys(resourceColors)
                  THEN color = Value(resourceColors, toUpperCase(t))
                  ELSE CascadeHolds(t, color, Value(resourceColors, "WIND"),
                                    Value(resourceColors, "PWRSTR"),
                                    Value(resourceColors, "OTHER"),
                                    ChartPartialMatches)

\* The number of steps of positive width of a curve of [cumulativeMW,
\* price] pairs, and the number of points of any other curve.
PositiveStepCount(curve) ==
    IF \A k \in 1..Len(curve) : Len(curve[k]) = 2
    THEN Cardinality({k \in 1..Len(curve) :
                        curve[k][1] - (IF k = 1 THEN 0 ELSE curve[k - 1][1]) > 0})
    ELSE Len(curve)

\* The sum of PositiveStepCount over the first n records.
RECURSIVE PositiveStepsUpTo(_)
PositiveStepsUpTo(n) ==
    IF n = 0 THEN 0
    ELSE PositiveStepCount(rawData[n].sced_tpo_offer_curve) + PositiveStepsUpTo(n - 1)

\* C21  Positive-width segments only: every segment pushed by the builder
\* and every point of the returned curve has mw > 0, the clipped last
\* segment of a truncated renewable included, and the records expanded so
\* far have pushed no more segments than their curves have steps of
\* positive width.
C21_PositiveWidth ==
    /\ \A i \in 1..Len(expandedData) : expandedData[i].mw > 0
    /\ Answered => \A i \in 1..Len(Curve) : Curve[i].mw > 0
    /\ Len(expandedData) <= PositiveStepsUpTo(idx - 1)

\* A curve was returned for a renewable whose curve starts with a step of
\* no width and whose schedule ends inside the next step: one segment,
\* clipped to the schedule.
C21_Witness ==
    /\ Answered /\ Len(rawData) = 1
    /\ Renewable(rawData[1])
    /\ rawData[1].sced_tpo_offer_curve = << <<0, -5000>>, <<30, 20004>> >>
    /\ rawData[1].output_schedule = <<20>>
    /\ MwPrice(Curve) = << <<20, 20004>> >>

\* What a segment is: its mw, price, resource name and resource type.
Emitted(point) ==
    [mw |-> point.mw, price |-> point.price,
     resource_name |-> point.resource_name, resource_type |-> point.resource_type]

\* How many times x is among the segments of s.
Occurrences(s, x) == Cardinality({i \in 1..Len(s) : Emitted(s[i]) = x})

\* C22  Prices preserved through assembly: the returned curve holds every
\* pushed segment of mw > 0 as many times as it was pushed, with its mw,
\* price, resource name and type, and nothing else; so the segments priced
\* at or below 0 are all on the curve, at their price, and none of them
\* comes after a segment of a higher price.
C22_PricesPreserved ==
    Answered =>
        /\ Len(Curve) = Len(SelectSeq(expandedData, LAMBDA point : point.mw > 0))
        /\ \A i \in 1..Len(expandedData) :
              expandedData[i].mw > 0 =>
                 Occurrences(Curve, expandedData[i])
                    = Occurrences(expandedData, expandedData[i])
        /\ \A i \in 1..Len(Curve) :
              Occurrences(expandedData, Emitted(Curve[i])) > 0
        /\ \A i, j \in 1..Len(Curve) :
              (Curve[i].price <= 0 /\ Curve[j].price > Curve[i].price) => i < j

\* A curve was returned for three segments, the first pushed priced above
\* 0, then one priced below 0, then one of the first's price and wider.
C22_Witness ==
    /\ Answered
    /\ MwPrice(expandedData) = << <<10, 20004>>, <<10, -5000>>, <<20, 20004>> >>
    /\ MwPrice(Curve) = << <<10, -5000>>, <<10, 20004>>, <<20, 20004>> >>

\* Every point of the curve is a [cumulativeMW, price] pair.
Pairs(curve) == \A k \in 1..Len(curve) : Len(curve[k]) = 2

\* C23  Renewable truncation is a prefix: the step on an available WIND or
\* PVGR record with a schedule above 0 and a curve of pairs pushes segments
\* for the first positive-width steps of the curve, in curve order and at
\* their prices; every segment but the last has the width of its step, the
\* last has the smaller of its step's width and the schedule less the mw
\* pushed before it; the mw pushed reach the schedule with the last
\* segment only, and no step is left out before they reach it.
C23_TruncationPrefix ==
    [][ (idx' = idx + 1 /\ Available(StepRow) /\ Renewable(StepRow)
            /\ HasSchedule(StepRow) /\ StepRow.output_schedule[1] > 0
            /\ Pairs(StepRow.sced_tpo_offer_curve))
        => LET steps == PositiveSteps(StepRow.sced_tpo_offer_curve)
               schedule == StepRow.output_schedule[1]
               n == Len(Pushed)
               before(m) == SumMw(SubSeq(Pushed, 1, m - 1))
           IN  /\ n <= Len(steps)
               /\ \A m \in 1..n : Pushed[m].price = steps[m][2]
               /\ \A m \in 1..(n - 1) :
                     Pushed[m].mw = steps[m][1] /\ before(m + 1) < schedule
               /\ n > 0 => Pushed[n].mw = Min(steps[n][1], schedule - before(n))
               /\ n < Len(steps) => SumMw(Pushed) = schedule ]_vars

\* The wind generator scheduled at 120 MW was expanded into 50 MW at -5
\* and 70 MW at 0, nothing for its step at 10.
C23_Witness ==
    /\ rawData = << ScheduledWind >> /\ idx = 2
    /\ MwPrice(expandedData) = << <<500, -5000>>, <<700, 0>> >>

\* The row is of the interval the chart was requested for.
Requested(row) == row.interval_start_utc = body.hour

\* C24  Single-interval snapshot: the chart generated for a request holds
\* the points of the rows stored for the requested interval and of no
\* other row.
C24_SingleInterval ==
    chart.status = 200 =>
        Offers(chart.data)
            = Offers(loadAndProcessDatabaseData(SelectSeq(rawData, Requested)))

\* The records the three filters have skipped so far.
Skipped == skippedForStatus + skippedForMissingSchedule + skippedForZeroSchedule

\* C25  Every record is accounted for once: the units processed and the
\* records skipped for status, for a missing schedule and for a schedule
\* at or below 0 add up to the records the builder has gone through, all
\* of them once it is through; the excludedUnitsCount of the response is
\* the sum of the three skip counts and its originalDataPoints the number
\* of records that pass all filters.
C25_Accounting ==
    /\ processedUnitsCount + Skipped = idx - 1
    /\ (endpoint = "gridstatus-python-bridge" /\ idx > Len(rawData))
          => processedUnitsCount + Skipped = Len(rawData)
    /\ Answered =>
          /\ response.metadata.excludedUnitsCount = Skipped
          /\ response.metadata.originalDataPoints
                = Cardinality({i \in 1..Len(rawData) : Eligible(rawData[i])})
          /\ response.metadata.originalDataPoints
                + response.metadata.excludedUnitsCount = Len(rawData)

\* A response was sent for two records, one skipped and one processed
\* into two segments.
C25_Witness ==
    /\ Answered /\ Len(rawData) = 2
    /\ Skipped = 1 /\ processedUnitsCount = 1
    /\ Len(expandedData) = 2

\* The records in the order given by a permutation of their positions.
Reordered(rows, order) == [i \in 1..Len(rows) |-> rows[order[i]]]

\* What does not depend on the order of the records: the prices, widths
\* and cumulative capacities along the curve, the total capacity, and the
\* capacity and marginalCost of each resource type.
OrderFree(data) ==
    [curve |-> [i \in 1..Len(data.rawSupplyCurve) |->
                   LET point == data.rawSupplyCurve[i]
                   IN  <<point.price, point.mw, point.cumulativeCapacity,
                         point.cumulativeCapacityEnd>>],
     totalCapacity |-> data.totalCapacity,
     summary |-> [t \in DOMAIN data.resourceTypeSummary |->
                     <<data.resourceTypeSummary[t].capacity,
                       data.resourceTypeSummary[t].marginalCost>>]]

\* C26  Permutation invariance: the builder's response for the records in
\* any other order has the same sequence of (price, mw, cumulativeCapacity,
\* cumulativeCapacityEnd), the same totalCapacity and the same capacity
\* and marginalCost for every resource type.
C26_PermutationInvariance ==
    [](Answered =>
        LET returned == OrderFree(response.data)
        IN  \A order \in Permutations(1..Len(rawData)) :
                OrderFree(ResponseData(ExpandAll(Reordered(rawData, order)))) = returned)

\* A response was built from two different records of different types
\* whose segments tie on a price, the wider one pushed first.
C26_Witness ==
    /\ Answered /\ Len(rawData) = 2
    /\ rawData[1].resource_type # rawData[2].resource_type
    /\ \E i, j \in 1..Len(expandedData) :
          /\ i < j
          /\ expandedData[i].resource_type # expandedData[j].resource_type
          /\ expandedData[i].price = expandedData[j].price
          /\ expandedData[i].mw > expandedData[j].mw

\* The demands above 0 and up to total, in steps of half a MW.
DemandsUpTo(total) == {d \in 1..total : d % 5 = 0}

\* The clearing price the statistics find for a demand on the returned
\* curve, sorted as they sort it, and the one the chart's loop finds on
\* the chart's data.
ClearingPriceOn(sortedData, demand) ==
    ClearingLoop(sortedData, 1, demand, 0, 0, 0).clearingPrice
ClearingPriceAt(demand) == ClearingPriceOn(Sort("price", Curve), demand)
ChartClearingPriceAt(demand) == ChartClearingPrice(chart.data, 1, demand)

\* No demand on the returned curve below the one the statistics were
\* computed for clears higher, and none above it clears lower.
MonotoneOnCurve ==
    Feasible =>
        LET sortedData == Sort("price", Curve)
        IN  \A d \in DemandsUpTo(response.data.totalCapacity) :
                /\ d <= Demand
                      => ClearingPriceOn(sortedData, d) <= stats.loop.clearingPrice
                /\ d >= Demand
                      => ClearingPriceOn(sortedData, d) >= stats.loop.clearingPrice

\* The same on the chart's data, for the chart's loop and demand.
MonotoneOnChart ==
    (chart.status = 200 /\ 0 < ChartDemand)
        => \A d \in DemandsUpTo(chart.chartConfig.totalCapacity) :
              /\ d <= ChartDemand
                    => ChartClearingPriceAt(d) <= chart.chartConfig.clearingPrice
              /\ d >= ChartDemand
                    => ChartClearingPriceAt(d) >= chart.chartConfig.clearingPrice

\* C27  Clearing price is monotone in demand: on the curve the statistics
\* were computed for, no demand above 0 and below the one they were
\* computed for clears at a higher price and no demand above it, up to
\* totalCapacity, clears at a lower one; likewise on the chart's data for
\* the chart's loop and demand.
C27_MonotoneClearing == [](MonotoneOnCurve /\ MonotoneOnChart)

\* Statistics were computed for a demand that a lower demand clears below,
\* on a curve with capacity left above the demand.
C27_Witness ==
    /\ Feasible
    /\ \E d1, d2 \in DemandsUpTo(response.data.totalCapacity) :
          /\ d1 < Demand /\ Demand < d2
          /\ ClearingPriceAt(d1) < stats.loop.clearingPrice

\* A chart was generated whose demand is past the cheapest point of data
\* loaded from rows that are not in price order.
C27_ChartWitness ==
    /\ chart.status = 200 /\ 0 < ChartDemand
    /\ Len(rawData) = 2
    /\ FinalMw(rawData[1].sced_tpo_offer_curve) > 0
    /\ rawData[1].sced_tpo_offer_curve[1][2] > rawData[2].sced_tpo_offer_curve[1][2]
    /\ \E d \in DemandsUpTo(chart.chartConfig.totalCapacity) :
          ChartClearingPriceAt(d) < chart.chartConfig.clearingPrice

\* The segments the builder pushes for the curve of a record that is
\* available, scheduled and not a renewable.
BuilderSegments(curve) == ExpandCurve(Row("G1", "NUC", "ON", curve, <<0>>), 1, 0, 0)

\* The record is one both the loader and the builder expand in full: named,
\* typed, of a status neither excludes, with a non-decreasing curve and
\* prices the loader accepts.
Comparable(row) ==
    /\ row.resource_name # "" /\ row.resource_type # ""
    /\ row.telemetered_resource_status \notin mockExcludedStatuses \cup excludedStatuses
    /\ NonDecreasing(row.sced_tpo_offer_curve)
    /\ \A k \in 1..Len(row.sced_tpo_offer_curve) :
          /\ row.sced_tpo_offer_curve[k][2] >= -500000
          /\ row.sced_tpo_offer_curve[k][2] <= 10000000

\* C28  Mock-data expansion agrees with the builder: the data loaded from a
\* mock file of one such record are, as (mw, price) in price order, the
\* segments the builder pushes for the record's curve, one per step of
\* positive width measured from 0 MW, and their mw sum to the final
\* cumulativeMW of the curve.
C28_MockAgreesWithBuilder ==
    (csvMockData.loaded /\ Len(lines) = 1 /\ Comparable(lines[1]))
    => LET curve == lines[1].sced_tpo_offer_curve
       IN  /\ MwPrice(csvMockData.data) = MwPrice(Sort("price", BuilderSegments(curve)))
           /\ SumMw(csvMockData.data) = FinalMw(curve)

\* No generateChart call awaits its fetch.
NoneInFlight == \A n \in 1..Len(requests) : requests[n].result # Pending

\* C29  Latest request wins in the JS dashboard: loading is false only
\* when no request is in flight, and once no request is in flight the
\* chartData, actualDemand and error shown are those the most recently
\* issued request leaves: its chart and no error if it succeeded, its
\* error if it failed.
C29_LatestRequestWins ==
    /\ ~loading => NoneInFlight
    /\ (NoneInFlight /\ Len(requests) > 0)
          => LET latest == requests[Len(requests)].result
             IN  IF latest.success
                 THEN /\ chartData = latest.chartConfig
                      /\ shownActualDemand = "undefined"
                      /\ error = "null"
                 ELSE error = latest.error

\* The stdout of a 'close' event parses to JSON with success true.
SuccessOutput(event) ==
    /\ event.type = "close"
    /\ event.stdout \in {"{\"success\": true}", "{\"success\": true} "}

\* The reasons the handler of an event rejects with.
Reasons(type) ==
    CASE type = "close" -> {"Failed to parse Python JSON output",
                            "Python script returned error", "Python script failed"}
      [] type = "error" -> {"Failed to start Python process"}
      [] type = "timeout" -> {"Python script timeout"}

\* C30  Python fetch outcome is decided by the first event: the promise is
\* pending until an event occurs and from then on, whatever occurs later,
\* it is what the first event made it: fulfilled with the parsed result
\* if the first event is 'close' with stdout parsing to JSON with success
\* true, whatever the exit code, and rejected for the first event's reason
\* in every other case; and it is settled once the timeout has fired.
C30_FirstEventDecides ==
    /\ events = <<>> <=> promise.state = "pending"
    /\ events # <<>> =>
          IF SuccessOutput(events[1])
          THEN promise = [state |-> "fulfilled", value |-> [success |-> TRUE]]
          ELSE /\ promise.state = "rejected"
               /\ promise.reason \in Reasons(events[1].type)
    /\ Fired("timeout") => promise.state # "pending"

\* The process closed first, with exit code 1 and a result with success
\* true on stdout, and the error event and the timeout came after it.
C30_Witness ==
    /\ Len(events) = 3
    /\ events[1].type = "close" /\ events[1].code = 1
    /\ SuccessOutput(events[1])
    /\ promise.state = "fulfilled"

\* The timeout came first, and then the process closed with a result.
C30_TimeoutWitness ==
    /\ Len(events) >= 2
    /\ events[1].type = "timeout" /\ events[2].type = "close"
    /\ SuccessOutput(events[2])
    /\ promise.state = "rejected"
====
